---- MODULE Spec2Model ----
(***************************************************************************)
(* bl_save: streaming reader of Blockland save files (src/src/read.rs).    *)
(*                                                                         *)
(* The byte source is a sequence of bytes in which the marker IoFault      *)
(* stands for a point where the underlying BufRead reports an error.       *)
(* Characters are Unicode scalar values (naturals); a String is a sequence *)
(* of them.  Option values are sequences of length 0 (None) or 1 (Some).   *)
(***************************************************************************)
EXTENDS Integers, Sequences, FiniteSets, TLC

VARIABLES
    src,          \* the bytes the BufRead will deliver (with IoFault markers)
    pos,          \* number of elements of src already consumed
    phase,        \* "start" | "ready" | "failed" | "panicked" | "lines"
    peeked,       \* Peekable::peeked : Option<Option<io::Result<BrickLine>>>
    description,  \* Reader::description
    colors,       \* Reader::colors
    brick_count,  \* Reader::brick_count : Option<usize>
    result,       \* what the last operation handed to its caller
    out           \* history of the items handed out by the pulls, oldest first

vars == <<src, pos, phase, peeked, description, colors, brick_count, result, out>>

(***************************************************************************)
(* Characters and bytes                                                    *)
(***************************************************************************)
Ascii ==
    <<" ", "!", "\"", "#", "$", "%", "&", "'", "(", ")", "*", "+", ",", "-", ".", "/",
      "0", "1", "2", "3", "4", "5", "6", "7", "8", "9", ":", ";", "<", "=", ">", "?",
      "@", "A", "B", "C", "D", "E", "F", "G", "H", "I", "J", "K", "L", "M", "N", "O",
      "P", "Q", "R", "S", "T", "U", "V", "W", "X", "Y", "Z", "[", "\\", "]", "^", "_",
      "grave", "a", "b", "c", "d", "e", "f", "g", "h", "i", "j", "k", "l", "m", "n", "o",
      "p", "q", "r", "s", "t", "u", "v", "w", "x", "y", "z", "{", "|", "}", "~">>

\* The scalar value of a printable ASCII character written as a one-character
\* string (entry 65 of the table, the grave accent, has no string form).
Ord(c) == 31 + (CHOOSE i \in 1..Len(Ascii) : Ascii[i] = c)

\* The text written as a tuple of one-character strings, as a String / as bytes.
Str(t) == [i \in 1..Len(t) |-> Ord(t[i])]

Space == Ord(" ")
Quote == Ord("\"")
PlusSign == Ord("+")
MinusSign == Ord("-")
Dot == Ord(".")
LetterE == Ord("e")
InfText == Str(<<"i", "n", "f">>)
InfinityText == Str(<<"i", "n", "f", "i", "n", "i", "t", "y">>)
NanText == Str(<<"n", "a", "n">>)

LF == 10
CR == 13

\* A point of the byte source at which the read fails (not a byte).
IoFault == 0 - 1

None == <<>>
Some(v) == <<v>>

\* io::Error values, by kind and message.
IoError == [kind |-> "Other", msg |-> "read failure"]

\* read.rs: invalid_data
invalid_data(error) == [kind |-> "InvalidData", msg |-> error]

Ok(v) == [t |-> "Ok", v |-> v]
Err(e) == [t |-> "Err", e |-> e]

\* A let binding: the body K of the binding applied to the bound value v.
Let(v, K(_)) == K(v)

(***************************************************************************)
(* cp1252.rs (not among the sources): the Windows-1252 table.              *)
(***************************************************************************)
Cp1252High ==
    <<8364, 129, 8218, 402, 8222, 8230, 8224, 8225, 710, 8240, 352, 8249, 338, 141, 381, 143,
      144, 8216, 8217, 8220, 8221, 8226, 8211, 8212, 732, 8482, 353, 8250, 339, 157, 382, 376>>

BYTE_TO_CHAR(b) == IF b >= 128 /\ b < 160 THEN Cp1252High[b - 127] ELSE b

(***************************************************************************)
(* Line splitter: Cp1252Lines                                              *)
(***************************************************************************)
\* BufRead::read_until with the line feed as delimiter, from position p of
\* source s: the index of the element that ends the read (a line feed or a
\* fault), or 0 when the read runs to the end of the source.
ReadStop(s, p) ==
    IF \E j \in (p + 1)..Len(s) : s[j] \in {LF, IoFault}
    THEN CHOOSE j \in (p + 1)..Len(s) :
             /\ s[j] \in {LF, IoFault}
             /\ \A k \in (p + 1)..(j - 1) : s[k] \notin {LF, IoFault}
    ELSE 0

\* A line that loses a final carriage return with or without a line feed.
StripTerminatorAnyReturn(buf) ==
    LET b1 == IF Len(buf) > 0 /\ buf[Len(buf)] = LF
              THEN SubSeq(buf, 1, Len(buf) - 1) ELSE buf
    IN  IF Len(b1) > 0 /\ b1[Len(b1)] = CR THEN SubSeq(b1, 1, Len(b1) - 1) ELSE b1

\* The line made of the bytes buf after the terminator is removed.
StripTerminator(buf) ==
    IF Len(buf) > 0 /\ buf[Len(buf)] = LF
    THEN LET b1 == SubSeq(buf, 1, Len(buf) - 1)
         IN  IF Len(b1) > 0 /\ b1[Len(b1)] = CR
             THEN SubSeq(b1, 1, Len(b1) - 1)
             ELSE b1
    ELSE buf

\* impl Iterator for Cp1252Lines: the item and the new source position.
DecodeLine(buf) == [i \in 1..Len(buf) |-> BYTE_TO_CHAR(buf[i])]

Cp1252LinesNext(s, p) ==
    Let(ReadStop(s, p), LAMBDA j :
        IF j = 0
        THEN IF p = Len(s)
             THEN [item |-> None, pos |-> p]
             ELSE [item |-> Some(Ok(DecodeLine(StripTerminator(SubSeq(s, p + 1, Len(s)))))),
                   pos |-> Len(s)]
        ELSE IF s[j] = IoFault
             THEN [item |-> Some(Err(IoError)), pos |-> j]
             ELSE [item |-> Some(Ok(DecodeLine(StripTerminator(SubSeq(s, p + 1, j))))),
                   pos |-> j])

\* read.rs: read_line
read_line(s, p) ==
    Let(Cp1252LinesNext(s, p), LAMBDA n :
        [res |-> IF n.item = None THEN Ok(<<>>) ELSE n.item[1], pos |-> n.pos])

(***************************************************************************)
(* str::parse for the integer types                                        *)
(***************************************************************************)
IsDigit(c) == c >= 48 /\ c <= 57

I32_MAX == 2147483647

\* usize::MAX (64-bit target) as decimal digits.
UsizeMaxDigits == <<1, 8, 4, 4, 6, 7, 4, 4, 0, 7, 3, 7, 0, 9, 5, 5, 1, 6, 1, 5>>

RECURSIVE StripZeros(_)
StripZeros(ds) == IF Len(ds) > 1 /\ ds[1] = 48 THEN StripZeros(Tail(ds)) ELSE ds

\* a <= b for sequences of digit values of the same length
RECURSIVE DigitsLeq(_, _)
DigitsLeq(a, b) ==
    IF a = <<>> THEN TRUE
    ELSE IF a[1] # b[1] THEN a[1] < b[1]
    ELSE DigitsLeq(Tail(a), Tail(b))

\* The value of a digit string, accumulated left to right.
RECURSIVE DigitsValue(_, _)
DigitsValue(ds, acc) ==
    IF ds = <<>> THEN acc ELSE DigitsValue(Tail(ds), acc * 10 + (ds[1] - 48))

\* <usize as FromStr>::from_str: an optional plus sign, then one or more
\* digits, the value at most usize::MAX.  [ok, v].
parse_usize(w) ==
    Let(IF Len(w) > 1 /\ w[1] = PlusSign THEN Tail(w) ELSE w, LAMBDA ds :
    Let(StripZeros(ds), LAMBDA nz :
        IF ds = <<>> \/ \E i \in 1..Len(ds) : ~IsDigit(ds[i])
        THEN [ok |-> FALSE, v |-> 0]
        ELSE IF Len(nz) > Len(UsizeMaxDigits)
                \/ (Len(nz) = Len(UsizeMaxDigits)
                    /\ ~DigitsLeq([i \in 1..Len(nz) |-> nz[i] - 48], UsizeMaxDigits))
        THEN [ok |-> FALSE, v |-> 0]
        ELSE [ok |-> TRUE, v |-> DigitsValue(nz, 0)]))

\* Accumulation of <i32 as FromStr>::from_str with its checked multiply and
\* checked add (sub for a negative number).  [ok, v].
RECURSIVE AccI32(_, _, _)
AccI32(ds, acc, neg) ==
    IF ds = <<>> THEN [ok |-> TRUE, v |-> acc]
    ELSE LET d == ds[1] - 48
         IN  IF ~neg
             THEN IF acc > (I32_MAX - d) \div 10
                  THEN [ok |-> FALSE, v |-> 0]
                  ELSE AccI32(Tail(ds), acc * 10 + d, neg)
             ELSE IF (0 - acc) > (IF d = 0 THEN I32_MAX \div 10
                                  ELSE (I32_MAX - (d - 1)) \div 10)
                  THEN [ok |-> FALSE, v |-> 0]
                  ELSE AccI32(Tail(ds), acc * 10 - d, neg)

\* <i32 as FromStr>::from_str: an optional sign, then one or more digits,
\* the value within the signed 32-bit range.
parse_i32(w) ==
    LET signed == Len(w) > 1 /\ w[1] \in {PlusSign, MinusSign}
        neg == signed /\ w[1] = MinusSign
        ds == IF signed THEN Tail(w) ELSE w
    IN  IF ds = <<>> \/ \E i \in 1..Len(ds) : ~IsDigit(ds[i])
        THEN [ok |-> FALSE, v |-> 0]
        ELSE AccI32(ds, 0, neg)

\* A cast that saturates at the ends of the range of u8.
as_u8_saturating(v) == IF v < 0 THEN 0 ELSE IF v > 255 THEN 255 ELSE v

\* The cast "as u8" of an i32.
as_u8(v) == v % 256

(***************************************************************************)
(* str::parse for f32.  An f32 is written as the decimal m * 10^e it was   *)
(* read from, normalised (m not a multiple of 10; zero is m = 0, e = 0,    *)
(* and -0.0 = 0.0), or as an infinity or NaN.  Two decimals of at most six *)
(* significant digits in the normal range are the same f32 only when they  *)
(* are the same decimal, which is the range the model exercises.           *)
(***************************************************************************)
F32(m, e) == [k |-> "num", m |-> m, e |-> e]
F32Zero == F32(0, 0)
F32Inf(neg) == [k |-> "inf", m |-> IF neg THEN 0 - 1 ELSE 1, e |-> 0]
F32NaN == [k |-> "nan", m |-> 0, e |-> 0]

RECURSIVE F32Norm(_, _)
F32Norm(m, e) ==
    IF m = 0 THEN F32Zero
    ELSE IF m % 10 = 0 THEN F32Norm(m \div 10, e + 1)
    ELSE F32(m, e)

RECURSIVE NumDigits(_)
NumDigits(m) == IF m < 10 THEN 1 ELSE 1 + NumDigits(m \div 10)

RECURSIVE Pow10(_)
Pow10(n) == IF n = 0 THEN 1 ELSE 10 * Pow10(n - 1)

\* The f32 nearest to the decimal m * 10^e (m >= 0 of at most nine digits):
\* infinite above f32::MAX, zero below half the least subnormal.
F32Round(m, e, neg) ==
    Let(F32Norm(m, e), LAMBDA n :
    Let(NumDigits(n.m) + n.e, LAMBDA d :
    Let(n.m * Pow10(9 - NumDigits(n.m)), LAMBDA top :
        IF n.m = 0 THEN F32Zero
        ELSE IF d > 39 \/ (d = 39 /\ top >= 340282357) THEN F32Inf(neg)
        ELSE IF d < 0 - 45 \/ (d = 0 - 45 /\ top <= 700649232) THEN F32Zero
        ELSE F32(IF neg THEN 0 - n.m ELSE n.m, n.e))))

\* Length of the longest prefix of s made of decimal digits.
RECURSIVE DigitRun(_)
DigitRun(s) == IF s # <<>> /\ IsDigit(s[1]) THEN 1 + DigitRun(Tail(s)) ELSE 0

ToLower(c) == IF c >= 65 /\ c <= 90 THEN c + 32 ELSE c

Drop(s, n) == SubSeq(s, n + 1, Len(s))

\* <f32 as FromStr>::from_str: [sign] ("inf" | "infinity" | "nan" |
\* digits ["." digits] [("e" | "E") [sign] digits]), with at least one digit
\* before the exponent.  [ok, v].
F32Bad == [ok |-> FALSE, v |-> F32Zero]

HasSign(w) == w # <<>> /\ w[1] \in {PlusSign, MinusSign}
IsNeg(w) == w # <<>> /\ w[1] = MinusSign
Unsigned(w) == IF HasSign(w) THEN Tail(w) ELSE w

\* The exponent part expPart of a decimal whose mantissa digits are mant, nf
\* of them after the point.
F32Exp(mant, nf, neg, expPart) ==
    Let(Unsigned(expPart), LAMBDA expDigits :
        IF expDigits = <<>> \/ DigitRun(expDigits) # Len(expDigits) THEN F32Bad
        ELSE Let(DigitsValue(StripZeros(expDigits), 0), LAMBDA ex :
                 [ok |-> TRUE,
                  v |-> F32Round(mant, (IF IsNeg(expPart) THEN 0 - ex ELSE ex) - nf, neg)]))

\* The decimal body (no sign, not a special value).
F32Decimal(body, neg) ==
    Let(DigitRun(body), LAMBDA ni :
    Let(Drop(body, ni), LAMBDA afterInt :
    Let(afterInt # <<>> /\ afterInt[1] = Dot, LAMBDA dot :
    Let(IF dot THEN Tail(afterInt) ELSE afterInt, LAMBDA afterDot :
    Let(IF dot THEN DigitRun(afterDot) ELSE 0, LAMBDA nf :
    Let(Drop(afterDot, nf), LAMBDA afterFrac :
    Let(DigitsValue(StripZeros(SubSeq(body, 1, ni) \o SubSeq(afterDot, 1, nf)), 0),
        LAMBDA mant :
        IF ni + nf = 0 THEN F32Bad
        ELSE IF afterFrac = <<>> THEN [ok |-> TRUE, v |-> F32Round(mant, 0 - nf, neg)]
        ELSE IF ToLower(afterFrac[1]) # LetterE THEN F32Bad
        ELSE F32Exp(mant, nf, neg, Tail(afterFrac)))))))))

parse_f32(w) ==
    Let(Unsigned(w), LAMBDA body :
    Let([i \in 1..Len(body) |-> ToLower(body[i])], LAMBDA low :
        IF body = <<>> THEN F32Bad
        ELSE IF low = InfText \/ low = InfinityText
        THEN [ok |-> TRUE, v |-> F32Inf(IsNeg(w))]
        ELSE IF low = NanText THEN [ok |-> TRUE, v |-> F32NaN]
        ELSE F32Decimal(body, IsNeg(w))))

(***************************************************************************)
(* Field tokenisation.  A char iterator is the sequence of the characters  *)
(* it has not yet yielded; each helper returns its value and the iterator. *)
(***************************************************************************)
\* Index of the first space of chars, or 0.
FirstSpace(chars) ==
    IF \E i \in 1..Len(chars) : chars[i] = Space
    THEN CHOOSE i \in 1..Len(chars) :
             chars[i] = Space /\ \A k \in 1..(i - 1) : chars[k] # Space
    ELSE 0

\* A word reader that passes over every space that follows the word.
RECURSIVE take_word_skip_spaces(_)
take_word_skip_spaces(chars) ==
    Let(FirstSpace(chars), LAMBDA i :
        IF i = 0 THEN [v |-> chars, rest |-> <<>>]
        ELSE IF i < Len(chars) /\ chars[i + 1] = Space
        THEN [v |-> SubSeq(chars, 1, i - 1),
              rest |-> take_word_skip_spaces(Drop(chars, i)).rest]
        ELSE [v |-> SubSeq(chars, 1, i - 1), rest |-> Drop(chars, i)])

\* read.rs: take_word_consume_space
take_word_consume_space(chars) ==
    Let(FirstSpace(chars), LAMBDA i :
        IF i = 0
        THEN [v |-> chars, rest |-> <<>>]
        ELSE [v |-> SubSeq(chars, 1, i - 1), rest |-> Drop(chars, i)])

\* Result::unwrap_or_default of a parse p, d the default of its type.
unwrap_or_default(p, d) == IF p.ok THEN p.v ELSE d

\* read.rs: float_from_chars
float_from_chars(chars) ==
    Let(take_word_consume_space(chars), LAMBDA w :
        [v |-> unwrap_or_default(parse_f32(w.v), F32Zero), rest |-> w.rest])

\* read.rs: int_from_chars
int_from_chars(chars) ==
    Let(take_word_consume_space(chars), LAMBDA w :
        [v |-> unwrap_or_default(parse_i32(w.v), 0), rest |-> w.rest])

\* A flag read with the opposite sense.
bool_from_chars_inverted(chars) ==
    Let(int_from_chars(chars), LAMBDA i : [v |-> i.v = 0, rest |-> i.rest])

\* read.rs: bool_from_chars
bool_from_chars(chars) ==
    Let(int_from_chars(chars), LAMBDA i : [v |-> i.v # 0, rest |-> i.rest])

(***************************************************************************)
(* Record stream classification                                            *)
(***************************************************************************)
LINECOUNT_PREFIX == Str(<<"L", "i", "n", "e", "c", "o", "u", "n", "t", " ">>)
EXTRA_DATA_PREFIX == Str(<<"+", "-">>)

\* A prefix test that leaves out the last character of the prefix.
starts_with_but_last(line, prefix) ==
    Len(line) >= Len(prefix) - 1
        /\ SubSeq(line, 1, Len(prefix) - 1) = SubSeq(prefix, 1, Len(prefix) - 1)

\* str::starts_with
starts_with(line, prefix) ==
    Len(line) >= Len(prefix) /\ SubSeq(line, 1, Len(prefix)) = prefix

\* str::find of a character: the index of its first occurrence, or 0.
find(line, c) ==
    IF \E i \in 1..Len(line) : line[i] = c
    THEN CHOOSE i \in 1..Len(line) : line[i] = c /\ \A k \in 1..(i - 1) : line[k] # c
    ELSE 0

\* read.rs: expect_next
expect_next(iter, error) ==
    IF iter = <<>>
    THEN [res |-> Err(invalid_data(error)), rest |-> <<>>]
    ELSE [res |-> Ok(iter[1]), rest |-> Tail(iter)]

\* An expect_eq_next that accepts any item.
expect_eq_next_any(iter, cmp, error) ==
    Let(expect_next(iter, error), LAMBDA n :
        IF n.res.t = "Err" THEN n ELSE [res |-> Ok(TRUE), rest |-> n.rest])

\* read.rs: expect_eq_next
expect_eq_next(iter, cmp, error) ==
    Let(expect_next(iter, error), LAMBDA n :
        IF n.res.t = "Err" THEN n
        ELSE IF n.res.v # cmp THEN [res |-> Err(invalid_data(error)), rest |-> n.rest]
        ELSE [res |-> Ok(TRUE), rest |-> n.rest])

\* The twelve fields of a base line, read in order from the char iterator.
BrickFields(ui_name, chars) ==
    Let(float_from_chars(chars), LAMBDA x :
    Let(float_from_chars(x.rest), LAMBDA y :
    Let(float_from_chars(y.rest), LAMBDA z :
    Let(int_from_chars(z.rest), LAMBDA angle :
    Let(bool_from_chars(angle.rest), LAMBDA is_baseplate :
    Let(int_from_chars(is_baseplate.rest), LAMBDA color_index :
    Let(take_word_consume_space(color_index.rest), LAMBDA print :
    Let(int_from_chars(print.rest), LAMBDA color_fx :
    Let(int_from_chars(color_fx.rest), LAMBDA shape_fx :
    Let(bool_from_chars(shape_fx.rest), LAMBDA raycasting :
    Let(bool_from_chars(raycasting.rest), LAMBDA collision :
    Let(bool_from_chars(collision.rest), LAMBDA rendering :
        [ui_name |-> ui_name,
         position |-> <<x.v, y.v, z.v>>,
         angle |-> as_u8(angle.v),
         is_baseplate |-> is_baseplate.v,
         color_index |-> as_u8(color_index.v),
         print |-> print.v,
         color_fx |-> as_u8(color_fx.v),
         shape_fx |-> as_u8(shape_fx.v),
         raycasting |-> raycasting.v,
         collision |-> collision.v,
         rendering |-> rendering.v]))))))))))))

\* A count line that forgets its count.
LinecountZero(count) == [tag |-> "Linecount", count |-> 0]

\* BrickLine values
Base(data) == [tag |-> "Base", data |-> data]
Extra(s) == [tag |-> "Extra", s |-> s]
Linecount(count) == [tag |-> "Linecount", count |-> count]

\* read.rs: parse_brick_data_line
parse_brick_data_line(line) ==
    IF starts_with(line, EXTRA_DATA_PREFIX)
    THEN Ok(Extra(line))
    ELSE IF starts_with(line, LINECOUNT_PREFIX)
    THEN Ok(Linecount(unwrap_or_default(
                 parse_usize(Drop(line, Len(LINECOUNT_PREFIX))), 0)))
    ELSE Let(find(line, Quote), LAMBDA quote_index :
             IF quote_index = 0 THEN Err(invalid_data("Invalid brick line"))
             ELSE Let(expect_eq_next(Drop(line, quote_index), Space, "Invalid brick line"),
                      LAMBDA sp :
                      IF sp.res.t = "Err" THEN sp.res
                      ELSE Ok(Base(BrickFields(SubSeq(line, 1, quote_index - 1),
                                               sp.rest)))))

\* impl Iterator for BrickDataParser: the item and the new source position.
BrickDataParserNext(s, p) ==
    Let(Cp1252LinesNext(s, p), LAMBDA n :
        [item |-> IF n.item = None THEN None
                  ELSE IF n.item[1].t = "Err" THEN n.item
                  ELSE Some(parse_brick_data_line(n.item[1].v)),
         pos |-> n.pos])

(***************************************************************************)
(* std::iter::Peekable over BrickDataParser.  Its state is st = [pos,      *)
(* peeked]: peeked is None, or Some of the item that peek() fetched.       *)
(***************************************************************************)
PeekableNext(s, st) ==
    IF st.peeked # None
    THEN [item |-> st.peeked[1], st |-> [pos |-> st.pos, peeked |-> None]]
    ELSE Let(BrickDataParserNext(s, st.pos), LAMBDA n :
             [item |-> n.item, st |-> [pos |-> n.pos, peeked |-> None]])

PeekablePeek(s, st) ==
    IF st.peeked # None
    THEN [item |-> st.peeked[1], st |-> st]
    ELSE Let(BrickDataParserNext(s, st.pos), LAMBDA n :
             [item |-> n.item, st |-> [pos |-> n.pos, peeked |-> Some(n.item)]])

(***************************************************************************)
(* Escape collapser (escape.rs)                                            *)
(***************************************************************************)
Backslash == Ord("\\")

\* char::to_digit(16): the value of a hexadecimal digit, or 16.
HexValue(c) ==
    IF IsDigit(c) THEN c - 48
    ELSE IF c >= 97 /\ c <= 102 THEN c - 87
    ELSE IF c >= 65 /\ c <= 70 THEN c - 55
    ELSE 16

\* u8::from_str_radix(src, 16) of the two characters hex1 hex2: a leading
\* plus sign is accepted before the digits.  [ok, v].
u8_from_str_radix16(hex1, hex2) ==
    IF hex1 = PlusSign
    THEN [ok |-> HexValue(hex2) < 16, v |-> HexValue(hex2) % 16]
    ELSE [ok |-> HexValue(hex1) < 16 /\ HexValue(hex2) < 16,
          v |-> (HexValue(hex1) % 16) * 16 + (HexValue(hex2) % 16)]

\* Control codes that number the digits without gaps.
ControlCodeSequential(c) ==
    IF c = Ord("r") THEN 15
    ELSE IF c = Ord("p") THEN 16
    ELSE IF c = Ord("o") THEN 17
    ELSE IF IsDigit(c) THEN c - 47
    ELSE 0

\* The control code of a recognised suffix of the \c escape, or 0.
ControlCode(c) ==
    IF c = Ord("r") THEN 15
    ELSE IF c = Ord("p") THEN 16
    ELSE IF c = Ord("o") THEN 17
    ELSE IF c = Ord("0") THEN 1
    ELSE IF c = Ord("1") THEN 2
    ELSE IF c = Ord("2") THEN 3
    ELSE IF c = Ord("3") THEN 4
    ELSE IF c = Ord("4") THEN 5
    ELSE IF c = Ord("5") THEN 6
    ELSE IF c = Ord("6") THEN 7
    ELSE IF c = Ord("7") THEN 11
    ELSE IF c = Ord("8") THEN 12
    ELSE IF c = Ord("9") THEN 14
    ELSE 0

\* escape.rs: collapse_one, called after a backslash.  [dst, rest].
collapse_one(dst, chars) ==
    IF chars = <<>> THEN [dst |-> Append(dst, Backslash), rest |-> <<>>]
    ELSE IF chars[1] = Ord("x")
    THEN IF Len(chars) = 1
         THEN [dst |-> dst \o <<Backslash, Ord("x")>>, rest |-> <<>>]
         ELSE IF Len(chars) = 2
         THEN [dst |-> dst \o <<Backslash, Ord("x"), chars[2]>>, rest |-> <<>>]
         ELSE Let(u8_from_str_radix16(chars[2], chars[3]), LAMBDA byte :
                  [dst |-> IF byte.ok THEN Append(dst, BYTE_TO_CHAR(byte.v))
                           ELSE dst \o <<Backslash, Ord("x"), chars[2], chars[3]>>,
                   rest |-> Drop(chars, 3)])
    ELSE IF chars[1] = Ord("c")
    THEN IF Len(chars) = 1
         THEN [dst |-> dst \o <<Backslash, Ord("c")>>, rest |-> <<>>]
         ELSE [dst |-> IF chars[2] = Ord("0")
                       THEN (IF dst = <<>> THEN <<2>> ELSE dst) \o <<1>>
                       ELSE IF ControlCode(chars[2]) # 0
                       THEN Append(dst, ControlCode(chars[2]))
                       ELSE dst \o <<Backslash, Ord("c"), chars[2]>>,
               rest |-> Drop(chars, 2)]
    ELSE [dst |-> Append(dst, IF chars[1] = Ord("r") THEN CR
                              ELSE IF chars[1] = Ord("n") THEN LF
                              ELSE IF chars[1] = Ord("t") THEN 9
                              ELSE chars[1]),
          rest |-> Tail(chars)]

\* escape.rs: collapse.  The characters before the next backslash are pushed
\* one by one; the model pushes that run in one step.
RECURSIVE collapse(_, _)
collapse(dst, chars) ==
    Let(find(chars, Backslash), LAMBDA b :
        IF b = 0 THEN dst \o chars
        ELSE Let(collapse_one(dst \o SubSeq(chars, 1, b - 1), Drop(chars, b)),
                 LAMBDA r : collapse(r.dst, r.rest)))

\* escape.rs: one iteration of the loop of collapse on a non-empty iterator.
collapse_step(dst, chars) ==
    IF chars[1] = Backslash
    THEN collapse_one(dst, Tail(chars))
    ELSE [dst |-> Append(dst, chars[1]), rest |-> Tail(chars)]

(***************************************************************************)
(* Reader::new                                                             *)
(***************************************************************************)
DescriptionLimit == 1000
PaletteSize == 64

\* The loop over 0..description_line_count: the escaped description and the
\* position after it, or the failure of a read.  Once the source is at its
\* end every further read_line gives the empty line, so the remaining
\* iterations only push their separators: the model pushes them in one step.
RECURSIVE ReadDescription(_, _, _, _, _)
\* A loop that pushes no separator between the lines.
ReadDescriptionNoSeparator(s, p, line_index, description_line_count, description_escaped) ==
    IF line_index >= description_line_count \/ p = Len(s)
    THEN [res |-> Ok(description_escaped), pos |-> p]
    ELSE Let(read_line(s, p), LAMBDA l :
             IF l.res.t = "Err" THEN l
             ELSE ReadDescription(s, l.pos, line_index + 1, description_line_count,
                      description_escaped \o l.res.v))

ReadDescription(s, p, line_index, description_line_count, description_escaped) ==
    IF line_index >= description_line_count
    THEN [res |-> Ok(description_escaped), pos |-> p]
    ELSE IF p = Len(s)
    THEN LET separators == (description_line_count - line_index)
                               - (IF line_index > 0 THEN 0 ELSE 1)
         IN  [res |-> Ok(description_escaped \o [i \in 1..separators |-> LF]), pos |-> p]
    ELSE Let(read_line(s, p), LAMBDA l :
             IF l.res.t = "Err" THEN l
             ELSE ReadDescription(s, l.pos, line_index + 1, description_line_count,
                      (IF line_index > 0 THEN Append(description_escaped, LF)
                       ELSE description_escaped) \o l.res.v))

\* A palette entry with red and green exchanged.
ColorOfLineSwapped(line) ==
    Let(float_from_chars(line), LAMBDA r :
    Let(float_from_chars(r.rest), LAMBDA g :
    Let(float_from_chars(g.rest), LAMBDA b :
    Let(float_from_chars(b.rest), LAMBDA a : <<g.v, r.v, b.v, a.v>>))))

\* One palette entry from its line.
ColorOfLine(line) ==
    Let(float_from_chars(line), LAMBDA r :
    Let(float_from_chars(r.rest), LAMBDA g :
    Let(float_from_chars(g.rest), LAMBDA b :
    Let(float_from_chars(b.rest), LAMBDA a : <<r.v, g.v, b.v, a.v>>))))

\* n iterations of the loop over the entries of colors, from position p: the
\* entries they set and the position after them, or the failure of a read.
\* The iterations run in order; the model splits them in two halves.
RECURSIVE ReadColors(_, _, _)
ReadColors(s, p, n) ==
    IF n = 1
    THEN Let(read_line(s, p), LAMBDA l :
             IF l.res.t = "Err" THEN l
             ELSE [res |-> Ok(<<ColorOfLine(l.res.v)>>), pos |-> l.pos])
    ELSE Let(ReadColors(s, p, n \div 2), LAMBDA first :
             IF first.res.t = "Err" THEN first
             ELSE Let(ReadColors(s, first.pos, n - (n \div 2)), LAMBDA second :
                      IF second.res.t = "Err" THEN second
                      ELSE [res |-> Ok(first.res.v \o second.res.v), pos |-> second.pos]))

\* A header step 5 that only peeks.
EarlyCountPeekOnly(s, p) ==
    Let(PeekablePeek(s, [pos |-> p, peeked |-> None]), LAMBDA pk :
        [res |-> Ok(TRUE), st |-> pk.st, brick_count |-> None])

\* Header step 5: what Reader::new does with the first classified line.
EarlyCount(s, p) ==
    Let(PeekablePeek(s, [pos |-> p, peeked |-> None]), LAMBDA pk :
    Let(PeekableNext(s, pk.st), LAMBDA nx :
        IF pk.item # None /\ pk.item[1].t = "Err"
        THEN [res |-> nx.item[1], st |-> nx.st, brick_count |-> None]
        ELSE IF pk.item # None /\ pk.item[1].v.tag = "Linecount"
        THEN [res |-> Ok(TRUE), st |-> nx.st, brick_count |-> Some(nx.item[1].v.count)]
        ELSE [res |-> Ok(TRUE), st |-> pk.st, brick_count |-> None]))

\* Reader::new: res is Ok or the failure; when Ok, the fields of the Reader.
\* What Reader::new gives when it returns the failure e with the source at p.
NewFails(e, p) ==
    [res |-> e, st |-> [pos |-> p, peeked |-> None],
     description |-> <<>>, colors |-> <<>>, brick_count |-> None]

ReaderNew(s) ==
    Let(read_line(s, 0), LAMBDA banner :
    IF banner.res.t = "Err" THEN NewFails(banner.res, banner.pos) ELSE
    Let(read_line(s, banner.pos), LAMBDA countLine :
    IF countLine.res.t = "Err" THEN NewFails(countLine.res, countLine.pos) ELSE
    Let(unwrap_or_default(parse_i32(countLine.res.v), 0), LAMBDA description_line_count :
    IF description_line_count > DescriptionLimit
    THEN NewFails(Err(invalid_data("Description is unreasonably long")), countLine.pos) ELSE
    Let(ReadDescription(s, countLine.pos, 0, description_line_count, <<>>), LAMBDA desc :
    IF desc.res.t = "Err" THEN NewFails(desc.res, desc.pos) ELSE
    Let(ReadColors(s, desc.pos, PaletteSize), LAMBDA cols :
    IF cols.res.t = "Err" THEN NewFails(cols.res, cols.pos) ELSE
    Let(EarlyCount(s, cols.pos), LAMBDA early :
    IF early.res.t = "Err" THEN NewFails(early.res, early.st.pos) ELSE
    [res |-> Ok(TRUE), st |-> early.st,
     description |-> collapse(<<>>, desc.res.v),
     colors |-> cols.res.v, brick_count |-> early.brick_count]))))))

(***************************************************************************)
(* impl Iterator for Reader: next.  What a pull gives its caller is a      *)
(* record by t: "None", "Ok" (v the Brick), "Err" (e the io::Error), or    *)
(* "Panic" when the pull aborts (msg the panic message).                   *)
(***************************************************************************)
RetNone == [t |-> "None"]
Panic(msg) == [t |-> "Panic", msg |-> msg]

\* A peek that never sees a continuation line.
IsExtraItemNever(item) == FALSE

IsExtraItem(item) == item # None /\ item[1].t = "Ok" /\ item[1].v.tag = "Extra"

\* The inner loop of next: collects the continuation lines of brick.
RECURSIVE CollectExtra(_, _, _, _)
\* A loop that returns the record when the line after it fails.
CollectExtraKeepsBrick(s, st, brick, bc) ==
    Let(PeekablePeek(s, st), LAMBDA pk :
        IF IsExtraItem(pk.item)
        THEN Let(PeekableNext(s, pk.st), LAMBDA nx :
                 CollectExtra(s, nx.st,
                     [brick EXCEPT !.unknown_extra = Append(@, nx.item[1].v.s)], bc))
        ELSE [ret |-> Ok(brick), st |-> pk.st, brick_count |-> bc])

\* A loop that takes a count line that follows the record.
CollectExtraTakesCount(s, st, brick, bc) ==
    Let(PeekablePeek(s, st), LAMBDA pk :
    Let(PeekableNext(s, pk.st), LAMBDA nx :
        IF IsExtraItem(pk.item)
        THEN CollectExtra(s, nx.st,
                 [brick EXCEPT !.unknown_extra = Append(@, nx.item[1].v.s)], bc)
        ELSE IF pk.item # None /\ pk.item[1].t = "Ok" /\ pk.item[1].v.tag = "Linecount"
        THEN [ret |-> Ok(brick), st |-> nx.st, brick_count |-> Some(nx.item[1].v.count)]
        ELSE IF pk.item = None \/ pk.item[1].t = "Ok"
        THEN [ret |-> Ok(brick), st |-> pk.st, brick_count |-> bc]
        ELSE [ret |-> nx.item[1], st |-> nx.st, brick_count |-> bc]))

CollectExtra(s, st, brick, bc) ==
    Let(PeekablePeek(s, st), LAMBDA pk :
    Let(PeekableNext(s, pk.st), LAMBDA nx :
        IF IsExtraItem(pk.item)
        THEN IF IsExtraItem(nx.item)
             THEN CollectExtra(s, nx.st,
                      [brick EXCEPT !.unknown_extra = Append(@, nx.item[1].v.s)], bc)
             ELSE [ret |-> Panic("variant changed from peek() to next()"),
                   st |-> nx.st, brick_count |-> bc]
        ELSE IF pk.item = None \/ pk.item[1].t = "Ok"
        THEN [ret |-> Ok(brick), st |-> pk.st, brick_count |-> bc]
        ELSE IF nx.item # None /\ nx.item[1].t = "Err"
        THEN [ret |-> nx.item[1], st |-> nx.st, brick_count |-> bc]
        ELSE [ret |-> Panic("variant changed from peek() to next()"),
              st |-> nx.st, brick_count |-> bc]))

\* Reader::next on a Reader whose Peekable is in state st and whose
\* brick_count is bc: what the caller gets, and the two fields afterwards.
RECURSIVE ReaderNext(_, _, _)
\* A pull that clears the declared count when the sequence ends.
ReaderNextClearsCount(s, st, bc) ==
    Let(PeekableNext(s, st), LAMBDA n :
        IF n.item = None THEN [ret |-> RetNone, st |-> n.st, brick_count |-> None]
        ELSE IF n.item[1].t = "Err" THEN [ret |-> n.item[1], st |-> n.st, brick_count |-> bc]
        ELSE IF n.item[1].v.tag = "Extra"
        THEN [ret |-> Panic("previous iteration should have handled extra brick data"),
              st |-> n.st, brick_count |-> bc]
        ELSE IF n.item[1].v.tag = "Linecount"
        THEN ReaderNext(s, n.st, Some(n.item[1].v.count))
        ELSE CollectExtra(s, n.st, [base |-> n.item[1].v.data, unknown_extra |-> <<>>], bc))

\* A pull that forgets the line the lookahead holds and reads on.
ReaderNextDropsHeld(s, st, bc) ==
    Let(PeekableNext(s, [pos |-> st.pos, peeked |-> None]), LAMBDA n :
        IF n.item = None THEN [ret |-> RetNone, st |-> n.st, brick_count |-> bc]
        ELSE IF n.item[1].t = "Err" THEN [ret |-> n.item[1], st |-> n.st, brick_count |-> bc]
        ELSE IF n.item[1].v.tag = "Extra"
        THEN [ret |-> Panic("previous iteration should have handled extra brick data"),
              st |-> n.st, brick_count |-> bc]
        ELSE IF n.item[1].v.tag = "Linecount"
        THEN ReaderNext(s, n.st, Some(n.item[1].v.count))
        ELSE CollectExtra(s, n.st, [base |-> n.item[1].v.data, unknown_extra |-> <<>>], bc))

ReaderNext(s, st, bc) ==
    Let(PeekableNext(s, st), LAMBDA n :
        IF n.item = None THEN [ret |-> RetNone, st |-> n.st, brick_count |-> bc]
        ELSE IF n.item[1].t = "Err" THEN [ret |-> n.item[1], st |-> n.st, brick_count |-> bc]
        ELSE IF n.item[1].v.tag = "Extra"
        THEN [ret |-> Panic("previous iteration should have handled extra brick data"),
              st |-> n.st, brick_count |-> bc]
        ELSE IF n.item[1].v.tag = "Linecount"
        THEN ReaderNext(s, n.st, Some(n.item[1].v.count))
        ELSE CollectExtra(s, n.st, [base |-> n.item[1].v.data, unknown_extra |-> <<>>], bc))

(***************************************************************************)
(* Inputs.  A file is described by how it is assembled: the text of its    *)
(* count line, its description lines, its palette lines and the items      *)
(* (lines or read faults) that follow the palette.                         *)
(***************************************************************************)
\* Items after the palette.
MaxPost == 3
\* Calls of next on one Reader.
MaxPulls == 4
\* Palette lines of a file that ends inside the palette.
MaxShortPalette == 2

\* Texts of the second line of the file.
CountTexts ==
    <<Str(<<"0">>), Str(<<"2">>), Str(<<"1", "0", "0", "0">>), Str(<<"1", "0", "0", "1">>),
      Str(<<"2", "1", "4", "7", "4", "8", "3", "6", "4", "7">>),
      Str(<<"2", "1", "4", "7", "4", "8", "3", "6", "4", "8">>),
      Str(<<"x">>), <<>>, Str(<<"-", "1">>)>>

DescTexts == <<Str(<<"H", "e", "l", "l", "o">>), Str(<<"W", "o", "r", "l", "d">>)>>

\* Description lines with escapes: the first ends in a backslash, the second
\* holds a hex escape.
EscapedDescTexts == <<Str(<<"A", "\\">>), Str(<<"n", "\\", "x", "4", "2">>)>>

\* The description lines of a file, by the variant f.dtext.
DescLinesOf(f) == IF f.dtext = 2 THEN EscapedDescTexts ELSE DescTexts

\* The first palette lines of a file; its further palette lines are empty.
PalTexts ==
    <<Str(<<"1", " ", "0", ".", "5", " ", "0", " ", "1">>),
      Str(<<"0", ".", "2", "5">>),
      Str(<<"x", " ", "2", " ", " ", "3">>),
      <<>>>>

\* The items that may follow the palette: lines, by kind, and a read fault.
BaseKinds == {"BaseA", "BaseB"}
ExtraKinds == {"ExtraA", "ExtraB"}
CountKinds == {"Count5", "Count500"}
BadKinds == {"NoQuote", "QuoteNoSpace", "QuoteEnd", "Empty"}
PostKinds == BaseKinds \cup ExtraKinds \cup CountKinds \cup BadKinds \cup {"Fault"}

\* The text of the line of each kind.
PostTexts ==
    [k \in PostKinds \ {"Fault"} |->
    CASE k = "BaseA" ->
           Str(<<"M", "y", "B", "r", "i", "c", "k", "\"", " ", "1", ".", "0", " ",
                 "2", ".", "0", " ", "3", ".", "0", " ", "0", " ", "1", " ", "5", " ",
                 "P", "r", "i", "n", "t", "1", " ", "0", " ", "0", " ", "1", " ", "1", " ", "1">>)
      [] k = "BaseB" ->
           Str(<<"B", "\"", " ", "-", "4", " ", "x", " ", "2", ".", "5", " ", "3", " ",
                 "0", " ", "3", "0", "0", " ", "P", " ", "7", " ", "8", " ", "1">>)
      [] k = "ExtraA" -> Str(<<"+", "-", "O", "W", "N", "E", "R", " ", "7">>)
      [] k = "ExtraB" -> Str(<<"+", "-">>)
      [] k = "Count5" -> Str(<<"L", "i", "n", "e", "c", "o", "u", "n", "t", " ", "5">>)
      [] k = "Count500" ->
           Str(<<"L", "i", "n", "e", "c", "o", "u", "n", "t", " ", "5", "0", "0">>)
      [] k = "NoQuote" -> Str(<<"B", "r", "i", "c", "k", " ", "1">>)
      [] k = "QuoteEnd" -> Str(<<"B", "r", "i", "c", "k", "\"">>)
      [] k = "Empty" -> <<>>
      [] k = "QuoteNoSpace" ->
           Str(<<"M", "y", "B", "r", "i", "c", "k", " ", "\"", "1", ".", "0", " ",
                 "2", ".", "0", " ", "3", ".", "0", " ", "0", " ", "1", " ", "5", " ",
                 "P", "r", "i", "n", "t", "1", " ", "0", " ", "0", " ", "1", " ", "1", " ", "1">>)]

PostText(k) == PostTexts[k]

\* The bytes of a line (ASCII text and its line feed) and of an item.
LineBytes(text) == Append(text, LF)
ItemBytes(k) == IF k = "Fault" THEN <<IoFault>> ELSE LineBytes(PostText(k))

\* The number of elements of the source that each item takes.
ItemLengths == [k \in PostKinds |-> Len(ItemBytes(k))]

RECURSIVE Concat(_)
Concat(ss) == IF ss = <<>> THEN <<>> ELSE Head(ss) \o Concat(Tail(ss))

\* The sequences over S of length at most n.
SeqsUpTo(S, n) == UNION {[1..m -> S] : m \in 0..n}

\* The lines before the items of file f, in order: the first f.top of the
\* banner and the count line, the description lines and the palette lines.
HeaderLines(f) ==
    SubSeq(<<Str(<<"b", "l", "s">>), CountTexts[f.hdr]>>, 1, f.top)
        \o [i \in 1..f.desc |-> DescLinesOf(f)[i]]
        \o [i \in 1..f.pal |-> IF i <= Len(PalTexts) THEN PalTexts[i] ELSE <<>>]

\* The bytes of file f; f.fault > 0 puts a read fault before header line f.fault.
Assemble(f) ==
    LET hl == HeaderLines(f)
    IN  Concat([i \in 1..Len(hl) |->
                   (IF i = f.fault THEN <<IoFault>> ELSE <<>>) \o LineBytes(hl[i])])
        \o Concat([i \in 1..Len(f.post) |-> ItemBytes(f.post[i])])

\* Files that may end early or fail inside the header: nothing after the palette.
HeaderFiles ==
    [top : {2}, hdr : 1..Len(CountTexts), desc : 0..Len(DescTexts), dtext : {1, 2},
     pal : 0..MaxShortPalette, fault : 0..(3 + MaxShortPalette), post : {<<>>}]
    \cup [top : {0, 1}, hdr : {1}, desc : {0}, dtext : {1}, pal : {0}, fault : {0, 1},
          post : {<<>>}]

\* Files with a whole header (no description, or the two lines of one) and a
\* whole palette, followed by up to MaxPost items.
BrickFiles ==
    [top : {2}, hdr : {1}, desc : {0}, dtext : {1}, pal : {PaletteSize}, fault : {0},
     post : SeqsUpTo(PostKinds, MaxPost)]
    \cup [top : {2}, hdr : {2}, desc : {2}, dtext : {1, 2}, pal : {PaletteSize}, fault : {0},
          post : SeqsUpTo(PostKinds, 1)]

(***************************************************************************)
(* The state machine: a caller constructs a Reader and pulls from it.      *)
(***************************************************************************)
VARIABLE file     \* how src was assembled (never read by the Reader)

allvars == <<vars, file>>

Init ==
    /\ file \in HeaderFiles \cup BrickFiles
    /\ src = Assemble(file)
    /\ pos = 0
    /\ phase = "start"
    /\ peeked = None
    /\ description = <<>>
    /\ colors = <<>>
    /\ brick_count = None
    /\ result = [op |-> "none"]
    /\ out = <<>>

\* let reader = Reader::new(r)
New ==
    /\ phase = "start"
    /\ \E r \in {ReaderNew(src)} :
           /\ phase' = IF r.res.t = "Ok" THEN "ready" ELSE "failed"
           /\ pos' = r.st.pos
           /\ peeked' = r.st.peeked
           /\ description' = r.description
           /\ colors' = r.colors
           /\ brick_count' = r.brick_count
           /\ result' = [op |-> "new", ret |-> r.res]
    /\ UNCHANGED <<src, out, file>>

\* reader.next()
Pull ==
    /\ phase = "ready"
    /\ Len(out) < MaxPulls
    /\ \E r \in {ReaderNext(src, [pos |-> pos, peeked |-> peeked], brick_count)} :
           /\ phase' = IF r.ret.t = "Panic" THEN "panicked" ELSE "ready"
           /\ pos' = r.st.pos
           /\ peeked' = r.st.peeked
           /\ brick_count' = r.brick_count
           /\ result' = [op |-> "next", ret |-> r.ret]
           /\ out' = Append(out, r.ret)
    /\ UNCHANGED <<src, description, colors, file>>

Next == New \/ Pull

Spec == Init /\ [][Next]_allvars

(***************************************************************************)
(* The line splitter on its own: a caller pulls lines from cp1252_lines(r) *)
(* over an arbitrary byte source.                                          *)
(***************************************************************************)
\* Elements of a raw source.
MaxBytes == 4
\* Calls of next on one Cp1252Lines.
MaxLinePulls == 4

\* A letter, a byte of the high half of the table, the terminators, a fault.
RawElements == {Ord("A"), 128, CR, LF, IoFault}

InitLines ==
    /\ src \in SeqsUpTo(RawElements, MaxBytes)
    /\ file = [raw |-> TRUE]
    /\ pos = 0
    /\ phase = "lines"
    /\ peeked = None
    /\ description = <<>>
    /\ colors = <<>>
    /\ brick_count = None
    /\ result = [op |-> "none"]
    /\ out = <<>>

\* lines.next()
LinePull ==
    /\ phase = "lines"
    /\ Len(out) < MaxLinePulls
    /\ \E r \in {Cp1252LinesNext(src, pos)} :
           /\ pos' = r.pos
           /\ result' = [op |-> "line", ret |-> r.item]
           /\ out' = Append(out, r.item)
    /\ UNCHANGED <<src, phase, peeked, description, colors, brick_count, file>>

NextLines == LinePull

SpecLines == InitLines /\ [][NextLines]_allvars

(***************************************************************************)
(* The escape collapser on its own: collapse(&mut description, chars) as   *)
(* Reader::new calls it, on an empty String, one iteration of its loop at  *)
(* a time.  src holds the characters, pos the number the iterator yielded. *)
(***************************************************************************)
\* Characters of an escaped text.
MaxEscape == 4

\* The backslash, the escape letters, hexadecimal digits and signs.
EscapeChars ==
    {Backslash, Ord("x"), Ord("c"), Ord("0"), Ord("8"), Ord("F"), Ord("r"),
     PlusSign, MinusSign}

\* The suffixes that the \c escape recognises.
ControlSuffixes ==
    {Ord("r"), Ord("p"), Ord("o"), Ord("0"), Ord("1"), Ord("2"), Ord("3"), Ord("4"),
     Ord("5"), Ord("6"), Ord("7"), Ord("8"), Ord("9")}

\* Every \c escape with a recognised suffix, first in the text and after a
\* character.
ControlTexts ==
    {prefix \o <<Backslash, Ord("c"), x>> : prefix \in {<<>>, <<Ord("F")>>},
                                            x \in ControlSuffixes}

InitCollapse ==
    /\ src \in SeqsUpTo(EscapeChars, MaxEscape) \cup ControlTexts
    /\ file = [escaped |-> TRUE]
    /\ pos = 0
    /\ phase = "collapse"
    /\ peeked = None
    /\ description = <<>>
    /\ colors = <<>>
    /\ brick_count = None
    /\ result = [op |-> "none"]
    /\ out = <<>>

\* chars.next() gives a character: it, or the escape it starts, is pushed.
CollapseStep ==
    /\ phase = "collapse"
    /\ pos < Len(src)
    /\ \E r \in {collapse_step(description, Drop(src, pos))} :
           /\ description' = r.dst
           /\ pos' = Len(src) - Len(r.rest)
    /\ result' = [op |-> "step"]
    /\ UNCHANGED <<src, phase, peeked, colors, brick_count, out, file>>

\* chars.next() gives None: the loop breaks.
CollapseEnd ==
    /\ phase = "collapse"
    /\ pos = Len(src)
    /\ phase' = "collapsed"
    /\ result' = [op |-> "collapse"]
    /\ UNCHANGED <<src, pos, peeked, description, colors, brick_count, out, file>>

NextCollapse == CollapseStep \/ CollapseEnd

SpecCollapse == InitCollapse /\ [][NextCollapse]_allvars

(***************************************************************************)
(* The line parsers on their own: a line of the record stream is handed to *)
(* parse_brick_data_line, a line of the palette to the colour loop's body. *)
(* src holds the characters of the line.                                   *)
(***************************************************************************)
\* Lines made of a start and a rest, for the classification.
ClassStarts ==
    <<Str(<<"+", "-">>),
      Str(<<"L", "i", "n", "e", "c", "o", "u", "n", "t", " ">>),
      Str(<<"L", "i", "n", "e", "c", "o", "u", "n", "t">>),
      <<>>,
      Str(<<"+">>),
      Str(<<" ", "+", "-">>),
      Str(<<"l", "i", "n", "e", "c", "o", "u", "n", "t", " ">>)>>

ClassRests ==
    <<<<>>,
      Str(<<"5">>),
      Str(<<"+", "5">>),
      Str(<<"-", "1">>),
      Str(<<"x">>),
      Str(<<" ", "5">>),
      Str(<<"0", "0", "7">>),
      Str(<<"B", "\"", " ", "1", " ", "2", " ", "3">>),
      Str(<<"+", "-">>),
      Str(<<"L", "i", "n", "e", "c", "o", "u", "n", "t", " ", "5">>),
      Str(<<"2", "1", "4", "7", "4", "8", "3", "6", "4", "7">>),
      Str(<<"9", "9", "9", "9", "9", "9", "9", "9", "9", "9", "9", "9", "9", "9", "9",
            "9", "9", "9", "9", "9", "9">>),
      Str(<<"5", " ">>)>>

ClassFiles ==
    [kind : {"class"}, start : 1..Len(ClassStarts), rest : 1..Len(ClassRests)]

\* Lines made of fields.  The fields of a line are those of a fixed line,
\* texts of the tables below put in place of up to MaxVaried of them; or the
\* line ends after the first n fields of the fixed line.
MaxVaried == 1

\* Field texts with the f32 they are read as (zero: not a number).
FloatTable ==
    <<[text |-> <<>>, v |-> F32Zero],
      [text |-> Str(<<"x">>), v |-> F32Zero],
      [text |-> Str(<<"-", "4">>), v |-> F32(0 - 4, 0)],
      [text |-> Str(<<"2", ".", "5">>), v |-> F32(25, 0 - 1)],
      [text |-> Str(<<"1", "e", "2">>), v |-> F32(1, 2)]>>

\* Field texts with the signed 32-bit integer they are read as (ok FALSE: the
\* text is no integer of that range).
IntTable ==
    <<[text |-> <<>>, ok |-> FALSE, v |-> 0],
      [text |-> Str(<<"x">>), ok |-> FALSE, v |-> 0],
      [text |-> Str(<<"0">>), ok |-> TRUE, v |-> 0],
      [text |-> Str(<<"2">>), ok |-> TRUE, v |-> 2],
      [text |-> Str(<<"2", "5", "5">>), ok |-> TRUE, v |-> 255],
      [text |-> Str(<<"2", "5", "6">>), ok |-> TRUE, v |-> 256],
      [text |-> Str(<<"2", "6", "0">>), ok |-> TRUE, v |-> 260],
      [text |-> Str(<<"-", "1">>), ok |-> TRUE, v |-> 0 - 1],
      [text |-> Str(<<"+", "7">>), ok |-> TRUE, v |-> 7],
      [text |-> Str(<<"1", ".", "5">>), ok |-> FALSE, v |-> 0],
      [text |-> Str(<<"2", "1", "4", "7", "4", "8", "3", "6", "4", "7">>),
       ok |-> TRUE, v |-> 2147483647],
      [text |-> Str(<<"2", "1", "4", "7", "4", "8", "3", "6", "4", "8">>),
       ok |-> FALSE, v |-> 0],
      [text |-> Str(<<"-", "2", "1", "4", "7", "4", "8", "3", "6", "4", "8">>),
       ok |-> TRUE, v |-> (0 - 2147483647) - 1],
      [text |-> Str(<<"-", "2", "1", "4", "7", "4", "8", "3", "6", "4", "9">>),
       ok |-> FALSE, v |-> 0]>>

TextTable == <<[text |-> <<>>], [text |-> Str(<<"x">>)]>>

\* The type of each field after the label of a base line, in order
\* ("f": f32, "i": i32 stored as u8, "b": flag, "t": text), and of a palette
\* line.
BrickFieldTypes == <<"f", "f", "f", "i", "b", "i", "t", "i", "i", "b", "b", "b">>
PaletteFieldTypes == <<"f", "f", "f", "f">>

\* The fixed lines: the text of each field and the value it stands for.
BrickFieldDefaults ==
    <<[text |-> Str(<<"1", ".", "5">>), v |-> F32(15, 0 - 1)],
      [text |-> Str(<<"2">>), v |-> F32(2, 0)],
      [text |-> Str(<<"3">>), v |-> F32(3, 0)],
      [text |-> Str(<<"1">>), v |-> 1],
      [text |-> Str(<<"1">>), v |-> TRUE],
      [text |-> Str(<<"5">>), v |-> 5],
      [text |-> Str(<<"P">>), v |-> Str(<<"P">>)],
      [text |-> Str(<<"6">>), v |-> 6],
      [text |-> Str(<<"7">>), v |-> 7],
      [text |-> Str(<<"1">>), v |-> TRUE],
      [text |-> Str(<<"0">>), v |-> FALSE],
      [text |-> Str(<<"1">>), v |-> TRUE]>>

PaletteFieldDefaults ==
    <<[text |-> Str(<<"0", ".", "5">>), v |-> F32(5, 0 - 1)],
      [text |-> Str(<<"0", ".", "2", "5">>), v |-> F32(25, 0 - 2)],
      [text |-> Str(<<"1">>), v |-> F32(1, 0)],
      [text |-> Str(<<"2">>), v |-> F32(2, 0)]>>

TableOf(type) ==
    IF type = "f" THEN FloatTable ELSE IF type = "t" THEN TextTable ELSE IntTable

\* The choices of texts for fields of the given types that depart from the
\* fixed line in at most m fields: 0 keeps the field, k puts row k of the table.
RECURSIVE Varied(_, _)
Varied(types, m) ==
    IF m = 0 THEN {[p \in 1..Len(types) |-> 0]}
    ELSE Varied(types, m - 1)
             \cup UNION {UNION {{[v EXCEPT ![p] = k] : k \in 1..Len(TableOf(types[p]))} :
                                   p \in 1..Len(types)} : v \in Varied(types, m - 1)}

FieldFiles ==
    [kind : {"fields"}, n : {Len(BrickFieldTypes)}, sub : Varied(BrickFieldTypes, MaxVaried)]
    \cup [kind : {"fields"}, n : 0..(Len(BrickFieldTypes) - 1),
          sub : Varied(BrickFieldTypes, 0)]

PaletteFiles ==
    [kind : {"palette"}, n : {Len(PaletteFieldTypes)},
     sub : Varied(PaletteFieldTypes, MaxVaried)]
    \cup [kind : {"palette"}, n : 0..(Len(PaletteFieldTypes) - 1),
          sub : Varied(PaletteFieldTypes, 0)]

\* The text of field p of the line that f describes.
FieldText(types, defaults, f, p) ==
    IF f.sub[p] = 0 THEN defaults[p].text ELSE TableOf(types[p])[f.sub[p]].text

\* The first n fields with one space between neighbours.
RECURSIVE FieldsText(_, _, _, _)
FieldsText(types, defaults, f, n) ==
    IF n = 0 THEN <<>>
    ELSE IF n = 1 THEN FieldText(types, defaults, f, 1)
    ELSE FieldsText(types, defaults, f, n - 1) \o <<Space>>
             \o FieldText(types, defaults, f, n)

\* The characters of the line that f describes.
LineOf(f) ==
    IF f.kind = "class" THEN ClassStarts[f.start] \o ClassRests[f.rest]
    ELSE IF f.kind = "fields"
    THEN Str(<<"B", "\"", " ">>) \o FieldsText(BrickFieldTypes, BrickFieldDefaults, f, f.n)
    ELSE FieldsText(PaletteFieldTypes, PaletteFieldDefaults, f, f.n)

ParserFiles == ClassFiles \cup FieldFiles \cup PaletteFiles

InitParsers ==
    /\ file \in ParserFiles
    /\ src = LineOf(file)
    /\ pos = 0
    /\ phase = IF file.kind = "palette" THEN "paletteline" ELSE "brickline"
    /\ peeked = None
    /\ description = <<>>
    /\ colors = <<>>
    /\ brick_count = None
    /\ result = [op |-> "none"]
    /\ out = <<>>

\* parse_brick_data_line(line)
Classify ==
    /\ phase = "brickline"
    /\ result = [op |-> "none"]
    /\ result' = [op |-> "classify", ret |-> parse_brick_data_line(src)]
    /\ pos' = Len(src)
    /\ UNCHANGED <<src, phase, peeked, description, colors, brick_count, out, file>>

\* The body of the loop over the entries of colors, on the line read.
ReadColor ==
    /\ phase = "paletteline"
    /\ result = [op |-> "none"]
    /\ result' = [op |-> "color", ret |-> ColorOfLine(src)]
    /\ pos' = Len(src)
    /\ UNCHANGED <<src, phase, peeked, description, colors, brick_count, out, file>>

NextParsers == Classify \/ ReadColor

SpecParsers == InitParsers /\ [][NextParsers]_allvars

(***************************************************************************)
(* What the format description expects of the inputs above.  These tables  *)
(* are written from the texts of the lines, not computed by the Reader.    *)
(***************************************************************************)
\* The fields a base line of each kind stands for.
ExpectedBases ==
    [k \in BaseKinds |->
    IF k = "BaseA"
    THEN [ui_name |-> Str(<<"M", "y", "B", "r", "i", "c", "k">>),
          position |-> <<F32(1, 0), F32(2, 0), F32(3, 0)>>,
          angle |-> 0, is_baseplate |-> TRUE, color_index |-> 5,
          print |-> Str(<<"P", "r", "i", "n", "t", "1">>),
          color_fx |-> 0, shape_fx |-> 0,
          raycasting |-> TRUE, collision |-> TRUE, rendering |-> TRUE]
    ELSE [ui_name |-> Str(<<"B">>),
          position |-> <<F32(0 - 4, 0), F32(0, 0), F32(25, 0 - 1)>>,
          angle |-> 3, is_baseplate |-> FALSE, color_index |-> 44,
          print |-> Str(<<"P">>),
          color_fx |-> 7, shape_fx |-> 8,
          raycasting |-> TRUE, collision |-> FALSE, rendering |-> FALSE]]

ExpectedBase(k) == ExpectedBases[k]

\* The count a count line of each kind declares.
ExpectedCount(k) == IF k = "Count5" THEN 5 ELSE 500

\* The failure an item that is no record line gives.
ExpectedFailure(k) ==
    IF k = "Fault" THEN Err(IoError) ELSE Err(invalid_data("Invalid brick line"))

\* The position of the source after item i of the file (0: after the palette).
RECURSIVE LengthFrom(_, _)
LengthFrom(post, i) ==
    IF i > Len(post) THEN 0 ELSE ItemLengths[post[i]] + LengthFrom(post, i + 1)

ItemEnd(i) == Len(src) - LengthFrom(file.post, i + 1)

\* The last item of the run of continuation lines that follows item i.
RunEnd(post, i) ==
    CHOOSE j \in i..Len(post) :
        /\ \A k \in (i + 1)..j : post[k] \in ExtraKinds
        /\ (j < Len(post) => post[j + 1] \notin ExtraKinds)

\* The indices of the base lines of post, in order.
BaseIndices(post) ==
    LET B == {i \in 1..Len(post) : post[i] \in BaseKinds}
    IN  [n \in 1..Cardinality(B) |->
            CHOOSE i \in B : Cardinality({k \in B : k <= i}) = n]

\* The record of base line i: its fields and its continuation lines.
ExpectedBrick(post, i) ==
    [base |-> ExpectedBase(post[i]),
     unknown_extra |-> [k \in 1..(RunEnd(post, i) - i) |-> PostText(post[i + k])]]

\* The items up to the first end-of-sequence of a history of pulls.
UpToNone(o) ==
    IF \E i \in 1..Len(o) : o[i] = RetNone
    THEN SubSeq(o, 1, (CHOOSE i \in 1..Len(o) :
                          o[i] = RetNone /\ \A k \in 1..(i - 1) : o[k] # RetNone) - 1)
    ELSE o

Exhausted == phase = "ready" /\ out # <<>> /\ out[Len(out)] = RetNone

\* Every continuation line of post directly follows a base line or another
\* continuation line, and post has none but base, continuation and count lines.
WellGrouped(post) ==
    /\ \A i \in 1..Len(post) : post[i] \in BaseKinds \cup ExtraKinds \cup CountKinds
    /\ \A i \in 1..Len(post) :
           post[i] \in ExtraKinds => i > 1 /\ post[i - 1] \in BaseKinds \cup ExtraKinds

(***************************************************************************)
(* Claims                                                                  *)
(***************************************************************************)
\* The records that driving the Reader over post to its end is to yield.
ExpectedBricks(post) ==
    [n \in 1..Len(BaseIndices(post)) |-> Ok(ExpectedBrick(post, BaseIndices(post)[n]))]

\* C1: when the lines after the palette are base, continuation and count
\* lines with every continuation line directly after a base or continuation
\* line, the pulls up to the first end-of-sequence yield exactly one record
\* per base line, in input order, each with the run of continuation lines
\* that directly follows its base line, verbatim and in order.
C1_RecordGrouping ==
    WellGrouped(file.post) =>
        /\ Len(UpToNone(out)) <= Len(ExpectedBricks(file.post))
        /\ UpToNone(out) = SubSeq(ExpectedBricks(file.post), 1, Len(UpToNone(out)))
        /\ Exhausted => Len(UpToNone(out)) = Len(ExpectedBricks(file.post))

\* C1 witness: base, continuation, base pulled to the end gave a record with
\* one continuation line and then a record with none.
C1_Witness ==
    /\ Exhausted
    /\ file.post = <<"BaseB", "ExtraA", "BaseA">>
    /\ Len(out) = 3
    /\ Len(out[1].v.unknown_extra) = 1
    /\ out[2].v.unknown_extra = <<>>

\* The declared count once every count line of post has been seen: that of
\* the last count line, or None when post has no count line.
LastCount(post) ==
    IF \E i \in 1..Len(post) : post[i] \in CountKinds
    THEN Some(ExpectedCount(post[CHOOSE i \in 1..Len(post) :
                                    /\ post[i] \in CountKinds
                                    /\ \A k \in (i + 1)..Len(post) : post[k] \notin CountKinds]))
    ELSE None

\* No pull so far gave a failure or aborted.
NoFailure == \A i \in 1..Len(out) : out[i].t \in {"Ok", "None"}

\* C2: once next has returned end-of-sequence and no pull has failed,
\* brick_count is Some of the value of the last count line anywhere after the
\* palette (also one after the last record), and None only when there is no
\* count line.
C2_LatestCountWins ==
    (Exhausted /\ NoFailure) => brick_count = LastCount(file.post)

\* C2 witness: a count line, a record, and a second count line after the last
\* record; the pulls reached the end and the count is that of the second.
C2_Witness ==
    /\ Exhausted /\ NoFailure
    /\ file.post = <<"Count5", "BaseA", "Count500">>
    /\ brick_count = Some(500)

\* C3: no pull aborts; every pull returns a record, a failure or
\* end-of-sequence, also when a continuation line is the first line it sees.
C3_NoPullAborts ==
    /\ phase # "panicked"
    /\ \A i \in 1..Len(out) : out[i].t \in {"Ok", "Err", "None"}

\* The number of items after the palette that the Reader has taken from its
\* line stream: those read from the source, less the one that a peek holds.
Cursor ==
    Cardinality({i \in 1..Len(file.post) : ItemEnd(i) <= pos})
        - (IF peeked # None /\ peeked[1] # None THEN 1 ELSE 0)

\* The first item of post after item c that is no count line, or 0.
FirstRecordLine(post, c) ==
    IF \E i \in (c + 1)..Len(post) : post[i] \notin CountKinds
    THEN CHOOSE i \in (c + 1)..Len(post) :
             post[i] \notin CountKinds /\ \A k \in (c + 1)..(i - 1) : post[k] \in CountKinds
    ELSE 0

\* C4 as stated: the line with a space before its double quote and none after
\* it is a base record with label MyBrick and the listed fields, so
\* construction over it succeeds and the first pull yields that record.
C4_ClaimedLineParses ==
    file.post = <<"QuoteNoSpace">> =>
        /\ result.op = "new" => result.ret.t = "Ok"
        /\ Len(out) >= 1 =>
               out[1] = Ok([base |-> ExpectedBase("BaseA"), unknown_extra |-> <<>>])

\* C4 (amended): every record a pull returns has the fields of the first line
\* the pull took that is no count line: that line is a base line, its label
\* the text before its first double quote and its twelve fields read in the
\* fixed order (the line with MyBrick, the quote and then a space giving
\* position (1, 2, 3), orientation 0, and so on).
C4_BaseLineFields ==
    [][(result'.op = "next" /\ result'.ret.t = "Ok") =>
          /\ FirstRecordLine(file.post, Cursor) # 0
          /\ file.post[FirstRecordLine(file.post, Cursor)] \in BaseKinds
          /\ result'.ret.v.base =
                 ExpectedBase(file.post[FirstRecordLine(file.post, Cursor)])]_allvars

\* C4 witness: a pull returned the record of the MyBrick line.
C4_Witness ==
    /\ result.op = "next"
    /\ result.ret.t = "Ok"
    /\ result.ret.v.base = ExpectedBase("BaseA")
    /\ "BaseA" \in {file.post[i] : i \in 1..Len(file.post)}

\* The count lines (by index in CountTexts) whose text is the decimal text of
\* an unsigned integer, and those of them above 1000.
UnsignedCounts == 1..6
CountsOver1000 == {4, 5, 6}

TooLong == Err(invalid_data("Description is unreasonably long"))

\* C5: when the second line is the decimal text of an unsigned integer N,
\* Reader::new fails with "Description is unreasonably long" if N > 1000
\* (of any magnitude), whatever follows, and never with that error if
\* N <= 1000.
C5_DescriptionLimit ==
    (phase # "start" /\ file.top = 2 /\ file.fault \notin {1, 2}
         /\ file.hdr \in UnsignedCounts) =>
        IF file.hdr \in CountsOver1000
        THEN phase = "failed" /\ result = [op |-> "new", ret |-> TooLong]
        ELSE result # [op |-> "new", ret |-> TooLong]

\* A file with its whole palette: the items of post are what follows it.
WholeHeader == file.top = 2 /\ file.pal = PaletteSize /\ file.fault = 0

\* C6 as stated: Reader::new takes the first line after the palette exactly
\* when it is a count line; in every other case (base, continuation, a line
\* that fails classification, end of input) it succeeds with no count and
\* leaves the line to the first pull.
C6_OnlyCountConsumed ==
    (result.op = "new" /\ WholeHeader) =>
        IF file.post # <<>> /\ file.post[1] \in CountKinds
        THEN /\ result.ret.t = "Ok"
             /\ brick_count = Some(ExpectedCount(file.post[1]))
             /\ Cursor = 1
        ELSE /\ result.ret.t = "Ok"
             /\ brick_count = None
             /\ Cursor = 0

\* C6 (amended): Reader::new takes the first line after the palette when it
\* is a count line (brick_count is then Some of its value) and also when
\* reading or classifying it fails: construction then fails with that
\* failure.  A base line, a continuation line or the end of the input leaves
\* construction successful with no count and the line to the first pull.
C6_EarlyCountOrFailure ==
    (result.op = "new" /\ WholeHeader) =>
        IF file.post # <<>> /\ file.post[1] \in CountKinds
        THEN /\ result.ret.t = "Ok"
             /\ brick_count = Some(ExpectedCount(file.post[1]))
             /\ Cursor = 1
        ELSE IF file.post # <<>> /\ file.post[1] \in BadKinds \cup {"Fault"}
        THEN /\ result.ret = ExpectedFailure(file.post[1])
             /\ phase = "failed"
             /\ Cursor = 1
        ELSE /\ result.ret.t = "Ok"
             /\ brick_count = None
             /\ Cursor = 0

\* C6 witness: construction failed on a first line with no double quote.
C6_Witness ==
    /\ result.op = "new"
    /\ WholeHeader
    /\ file.post # <<>> /\ file.post[1] = "NoQuote"
    /\ phase = "failed"
    /\ result.ret = Err(invalid_data("Invalid brick line"))

InvalidBrickLine == Err(invalid_data("Invalid brick line"))

\* C7 as stated: a line after the palette that starts with neither prefix
\* and has no double quote (the empty line too) or has anything but a space
\* right after its first double quote (the end of the line too) gives the
\* failure "Invalid brick line" as the result of the pull that reads it.
C7_FailsThePull ==
    [][\A i \in 1..Len(file.post) :
          (file.post[i] \in BadKinds /\ pos < ItemEnd(i) /\ ItemEnd(i) <= pos') =>
              result' = [op |-> "next", ret |-> InvalidBrickLine]]_allvars

\* C7 (amended): such a line makes the operation that reads it return the
\* failure "Invalid brick line": Reader::new for the first line after the
\* palette, the pull that reads it for every other line.  No record is built
\* from the line and it is not passed over.
C7_InvalidBrickLine ==
    [][\A i \in 1..Len(file.post) :
          (file.post[i] \in BadKinds /\ pos < ItemEnd(i) /\ ItemEnd(i) <= pos') =>
              /\ result'.ret = InvalidBrickLine
              /\ Cursor' = i
              /\ result'.op = "next" => out' = Append(out, InvalidBrickLine)]_allvars

\* C7 witness: a pull read the empty line and returned the failure.
C7_Witness ==
    /\ result = [op |-> "next", ret |-> InvalidBrickLine]
    /\ Cursor >= 2
    /\ file.post[Cursor] = "Empty"

\* The base lines among the first c items whose run of continuation lines is
\* not followed by an item that fails.
KeptBases(post, c) ==
    {b \in 1..c :
        /\ post[b] \in BaseKinds
        /\ ~(RunEnd(post, b) < Len(post)
                 /\ post[RunEnd(post, b) + 1] \in BadKinds \cup {"Fault"})}

NumOk(o) == Cardinality({i \in 1..Len(o) : o[i].t = "Ok"})

\* C8: when the line after a base line and its run of continuation lines
\* fails to be read or classified, the pull that took the base line returns
\* that failure and takes the failing line, and the record of the base line
\* is returned neither by that pull nor by a later one.
C8_FailureDropsRecord ==
    [][/\ \A f \in 1..Len(file.post) :
             (/\ file.post[f] \in BadKinds \cup {"Fault"}
              /\ pos < ItemEnd(f) /\ ItemEnd(f) <= pos'
              /\ \E b \in 1..(f - 1) : file.post[b] \in BaseKinds /\ RunEnd(file.post, b) = f - 1)
             => /\ result' = [op |-> "next", ret |-> ExpectedFailure(file.post[f])]
                /\ out' = Append(out, ExpectedFailure(file.post[f]))
                /\ Cursor' = f
       /\ NumOk(out') <= Cardinality(KeptBases(file.post, Cursor'))]_allvars

\* C8 witness: base, continuation, read fault: the first pull returned the
\* failure and the second the end of the sequence.
C8_Witness ==
    /\ file.post = <<"BaseA", "ExtraA", "Fault">>
    /\ out = <<Err(IoError), RetNone>>

IsFailure(item) == item # None /\ item[1].t = "Err"

\* C9 as stated: after the line sequence has yielded a read failure, every
\* later pull of it yields end-of-sequence.
C9_ExhaustedAfterFailure ==
    \A i, j \in 1..Len(out) : (i < j /\ IsFailure(out[i])) => out[j] = None

\* The number of description lines the count line declares (unparsable: 0).
DeclaredLines(f) ==
    IF f.top < 2 THEN 0
    ELSE IF f.hdr = 2 THEN 2
    ELSE IF f.hdr = 3 THEN 1000
    ELSE 0

\* The components a palette line stands for.
ExpectedColor(text) ==
    IF text = PalTexts[1] THEN <<F32(1, 0), F32(5, 0 - 1), F32(0, 0), F32(1, 0)>>
    ELSE IF text = PalTexts[2] THEN <<F32(25, 0 - 2), F32(0, 0), F32(0, 0), F32(0, 0)>>
    ELSE IF text = PalTexts[3] THEN <<F32(0, 0), F32(2, 0), F32(0, 0), F32(3, 0)>>
    ELSE <<F32(0, 0), F32(0, 0), F32(0, 0), F32(0, 0)>>

NoFault == file.fault = 0 /\ \A i \in 1..Len(file.post) : file.post[i] # "Fault"

\* C10: when the source reports no read failure (and the count line does not
\* declare more than 1000 lines), Reader::new does not fail because the input
\* ends early, not even on an empty input; colors has 64 entries, entry i
\* that of the i-th line after the description lines when there is such a
\* line and four zeros when the input ends before it; a component that is
\* absent or unparsable is zero.
C10_PaletteOf64 ==
    (phase # "start" /\ NoFault /\ ~(file.top = 2 /\ file.hdr \in CountsOver1000)) =>
        /\ phase = "failed" =>
               /\ result.ret = InvalidBrickLine
               /\ file.post # <<>> /\ file.post[1] \in BadKinds
        /\ phase # "failed" =>
               /\ Len(colors) = 64
               /\ \A i \in 1..64 :
                      colors[i] =
                          IF 2 + DeclaredLines(file) + i <= Len(HeaderLines(file))
                          THEN ExpectedColor(HeaderLines(file)[2 + DeclaredLines(file) + i])
                          ELSE ExpectedColor(<<>>)

\* C10 witness: a Reader built from a file that ends after two palette lines.
C10_Witness ==
    /\ phase = "ready"
    /\ NoFault
    /\ file.top = 2 /\ file.hdr = 1 /\ file.desc = 0 /\ file.pal = 2
    /\ colors[2] = ExpectedColor(PalTexts[2])
    /\ colors[3] = ExpectedColor(<<>>)

\* The lines of a file without read fault, in order.
FileLines(f) == HeaderLines(f) \o [i \in 1..Len(f.post) |-> PostText(f.post[i])]

\* Line i of the file, the empty string when the file has fewer lines.
LineAt(f, i) == IF i <= Len(FileLines(f)) THEN FileLines(f)[i] ELSE <<>>

\* Lines lo..hi of the file with one line feed between neighbours.
RECURSIVE JoinedLines(_, _, _)
JoinedLines(f, lo, hi) ==
    IF lo > hi THEN <<>>
    ELSE IF lo = hi THEN LineAt(f, lo)
    ELSE JoinedLines(f, lo, (lo + hi) \div 2) \o <<LF>>
             \o JoinedLines(f, ((lo + hi) \div 2) + 1, hi)

\* The count lines (by index in CountTexts) that declare 0 to 1000 lines.
CountsInRange == {1, 2, 3}

\* C11: for a count line declaring N in 0..1000 lines and a source without
\* read failure, description is the collapse, run once over the joined text,
\* of the N lines after the count line joined by N - 1 line feeds, a line the
\* input does not have counting as empty and causing no failure ("Hello",
\* "World" give Hello, line feed, World; a backslash ending a line joins the
\* line feed after it); the palette starts at line N + 3.
C11_DescriptionAssembly ==
    (phase # "start" /\ NoFault /\ file.top = 2 /\ file.hdr \in CountsInRange) =>
        /\ phase = "failed" =>
               /\ result.ret = InvalidBrickLine
               /\ file.post # <<>> /\ file.post[1] \in BadKinds
        /\ phase # "failed" =>
               /\ description =
                      collapse(<<>>, JoinedLines(file, 3, 2 + DeclaredLines(file)))
               /\ (file.hdr = 2 /\ file.desc = 2 /\ file.dtext = 1) =>
                      description = DescTexts[1] \o <<LF>> \o DescTexts[2]
               /\ (file.hdr = 2 /\ file.desc = 2 /\ file.dtext = 2) =>
                      description = <<Ord("A"), LF, Ord("n"), Ord("B")>>
               /\ (file.hdr = 2 /\ file.desc = 1 /\ file.pal = 0) =>
                      description = IF file.dtext = 1 THEN Append(DescTexts[1], LF)
                                    ELSE <<Ord("A"), LF>>
               /\ file.hdr = 1 => description = <<>>
               /\ colors[1] = ExpectedColor(LineAt(file, 3 + DeclaredLines(file)))

\* C11 witness: a Reader built from a file declaring two description lines,
\* the first ending in a backslash, then one palette line: the description is
\* A, line feed, n, B and the first colour is that of the fifth line.
C11_Witness ==
    /\ phase = "ready"
    /\ NoFault
    /\ file.hdr = 2 /\ file.desc = 2 /\ file.dtext = 2 /\ file.pal = 1
    /\ description = <<Ord("A"), LF, Ord("n"), Ord("B")>>
    /\ colors[1] = ExpectedColor(PalTexts[1])

\* The value of a hexadecimal digit (0-9, a-f, A-F), or 16 for any other
\* character.
HexDigit(c) ==
    IF c >= 48 /\ c <= 57 THEN c - 48
    ELSE IF c >= 65 /\ c <= 70 THEN c - 55
    ELSE IF c >= 97 /\ c <= 102 THEN c - 87
    ELSE 16

\* The iteration about to run starts an escape: the next character is a
\* backslash; esc is what follows the backslash.
AtBackslash == phase = "collapse" /\ pos < Len(src) /\ src[pos + 1] = Backslash
AfterBackslash == Drop(src, pos + 1)

\* The iteration consumed n characters and pushed the characters pushed.
Collapsed(n, pushed) == pos' = pos + n /\ description' = description \o pushed

\* C12 as stated: after backslash x, two hexadecimal digits h1 h2 give the
\* one character of the table for byte 16 * h1 + h2; in every other case (h1
\* or h2 no hexadecimal digit, a sign character for one, or the input ending
\* after the x or after h1) the characters consumed are pushed unchanged; a
\* backslash ending the input gives a backslash.
C12_HexEscape ==
    [][AtBackslash =>
          LET esc == AfterBackslash
          IN  /\ esc = <<>> => Collapsed(1, <<Backslash>>)
              /\ (esc # <<>> /\ esc[1] = Ord("x")) =>
                     IF Len(esc) >= 3 /\ HexDigit(esc[2]) < 16 /\ HexDigit(esc[3]) < 16
                     THEN Collapsed(4, <<BYTE_TO_CHAR(16 * HexDigit(esc[2])
                                                         + HexDigit(esc[3]))>>)
                     ELSE IF Len(esc) >= 3
                     THEN Collapsed(4, SubSeq(src, pos + 1, pos + 4))
                     ELSE Collapsed(1 + Len(esc), SubSeq(src, pos + 1, Len(src)))]_allvars

\* The control code of each suffix of the \c escape.
ExpectedControlCodes ==
    (Ord("r") :> 15) @@ (Ord("p") :> 16) @@ (Ord("o") :> 17) @@ (Ord("0") :> 1)
        @@ (Ord("1") :> 2) @@ (Ord("2") :> 3) @@ (Ord("3") :> 4) @@ (Ord("4") :> 5)
        @@ (Ord("5") :> 6) @@ (Ord("6") :> 7) @@ (Ord("7") :> 11) @@ (Ord("8") :> 12)
        @@ (Ord("9") :> 14)

\* C13: backslash c X with X one of r, p, o, 0..9 pushes the control code of
\* the table (a code in 1..23); backslash c 0 pushes code 2 and then code 1
\* exactly when nothing has been pushed to the output before it, and code 1
\* alone otherwise; any other X pushes the three characters unchanged.
C13_ControlCodes ==
    [][(AtBackslash /\ Len(AfterBackslash) >= 2 /\ AfterBackslash[1] = Ord("c")) =>
          LET X == AfterBackslash[2]
          IN  IF X = Ord("0")
              THEN Collapsed(3, IF description = <<>> THEN <<2, 1>> ELSE <<1>>)
              ELSE IF X \in DOMAIN ExpectedControlCodes
              THEN /\ Collapsed(3, <<ExpectedControlCodes[X]>>)
                   /\ ExpectedControlCodes[X] \in 1..23
              ELSE Collapsed(3, <<Backslash, Ord("c"), X>>)]_allvars

\* C13 witness: the text F, backslash, c, 7 was collapsed to F and code 11.
C13_Witness ==
    /\ phase = "collapsed"
    /\ src = <<Ord("F"), Backslash, Ord("c"), Ord("7")>>
    /\ description = <<Ord("F"), 11>>

\* The positions of the line feeds of the bytes s, and the n-th of them
\* (0 for n = 0).
LineFeeds(s) == {i \in 1..Len(s) : s[i] = LF}

NthLineFeed(s, n) ==
    IF n = 0 THEN 0
    ELSE CHOOSE i \in LineFeeds(s) : Cardinality({k \in LineFeeds(s) : k <= i}) = n

\* The number of lines of s: one per line feed, and one for a non-empty rest.
NumLines(s) ==
    Cardinality(LineFeeds(s))
        + (IF Len(s) > NthLineFeed(s, Cardinality(LineFeeds(s))) THEN 1 ELSE 0)

\* The bytes of line n of s: the segment less its line feed and less a
\* carriage return directly before that line feed.
LineSegment(s, n) ==
    LET from == NthLineFeed(s, n - 1) + 1
        terminated == n <= Cardinality(LineFeeds(s))
        to == IF terminated THEN NthLineFeed(s, n) - 1 ELSE Len(s)
    IN  IF terminated /\ to >= from /\ s[to] = CR
        THEN SubSeq(s, from, to - 1)
        ELSE SubSeq(s, from, to)

NoRawFault == \A i \in 1..Len(src) : src[i] # IoFault

\* C14: over a byte source without read failure, the pulls of the line
\* splitter yield one line per segment ended by a line feed and one for a
\* non-empty rest without line feed, then end-of-sequence (no empty line
\* after a final line feed, no line for the empty input); a line is its
\* segment less the line feed and less one carriage return directly before
\* that line feed (any other carriage return is kept), each remaining byte
\* one character of the table.
C14_LineSplitting ==
    (phase = "lines" /\ NoRawFault) =>
        \A i \in 1..Len(out) :
            IF i <= NumLines(src)
            THEN /\ out[i] = Some(Ok([k \in 1..Len(LineSegment(src, i)) |->
                                         BYTE_TO_CHAR(LineSegment(src, i)[k])]))
                 /\ Len(out[i][1].v) = Len(LineSegment(src, i))
            ELSE out[i] = None

\* C14 witness: the bytes 128, CR, LF, CR pulled three times gave the line of
\* the one character U+20AC, the line of a carriage return, and the end.
C14_Witness ==
    /\ phase = "lines"
    /\ src = <<128, CR, LF, CR>>
    /\ out = <<Some(Ok(<<8364>>)), Some(Ok(<<CR>>)), None>>

\* The last item of the run of count lines that starts after item c (c when
\* item c + 1 is no count line).
CountRunEnd(post, c) ==
    IF FirstRecordLine(post, c) = 0 THEN Len(post) ELSE FirstRecordLine(post, c) - 1

\* C15: a pull that returns the record of base line b leaves a count line
\* that follows the record in the lookahead, not taken, and brick_count is
\* then that of the last count line before b (None without one); every pull
\* first takes the count lines in front of it, so a count line between two
\* records changes brick_count during the pull after the first record's.
C15_DeferredCount ==
    [][result'.op = "next" =>
          /\ brick_count' = LastCount(SubSeq(file.post, 1, CountRunEnd(file.post, Cursor)))
          /\ result'.ret.t = "Ok" =>
                 LET b == FirstRecordLine(file.post, Cursor)
                     e == RunEnd(file.post, b)
                 IN  /\ b # 0
                     /\ Cursor' = e
                     /\ (e < Len(file.post) /\ file.post[e + 1] \in CountKinds) =>
                            /\ peeked' = Some(Some(Ok(Linecount(
                                              ExpectedCount(file.post[e + 1])))))
                            /\ brick_count' = LastCount(SubSeq(file.post, 1, b - 1))]_allvars

\* C15 witness: base, count, base: the first pull has returned its record,
\* brick_count is still None and the count line is held by the lookahead.
C15_Witness ==
    /\ file.post = <<"BaseA", "Count5", "BaseB">>
    /\ Len(out) = 1 /\ out[1].t = "Ok"
    /\ brick_count = None
    /\ peeked = Some(Some(Ok(Linecount(5))))

\* The text line begins with the text prefix.
HasPrefix(line, prefix) ==
    Len(line) >= Len(prefix) /\ \A i \in 1..Len(prefix) : line[i] = prefix[i]

\* The value of the texts of the model that are unsigned integers.
UnsignedValues ==
    (Str(<<"5">>) :> 5) @@ (Str(<<"+", "5">>) :> 5) @@ (Str(<<"0", "0", "7">>) :> 7)
        @@ (Str(<<"2", "1", "4", "7", "4", "8", "3", "6", "4", "7">>) :> 2147483647)

UnsignedOrZero(text) == IF text \in DOMAIN UnsignedValues THEN UnsignedValues[text] ELSE 0

\* C16: a line that starts with +- is a continuation holding the whole line,
\* whatever follows; otherwise a line that starts with Linecount and a space
\* is a count line whose value is the rest as an unsigned integer, 0 when the
\* rest is none; every other line, the line Linecount without the space too,
\* is handled as a base record line: a record whose label is the text before
\* the first double quote, or the failure "Invalid brick line".
C16_Classification ==
    (result.op = "classify" /\ file.kind = "class") =>
        IF HasPrefix(src, Str(<<"+", "-">>))
        THEN result.ret = Ok(Extra(src))
        ELSE IF HasPrefix(src, Str(<<"L", "i", "n", "e", "c", "o", "u", "n", "t", " ">>))
        THEN result.ret = Ok(Linecount(UnsignedOrZero(SubSeq(src, 11, Len(src)))))
        ELSE IF \E i \in 1..Len(src) :
                    /\ src[i] = Quote /\ \A k \in 1..(i - 1) : src[k] # Quote
                    /\ i < Len(src) /\ src[i + 1] = Space
        THEN /\ result.ret.t = "Ok" /\ result.ret.v.tag = "Base"
             /\ \E i \in 1..Len(src) :
                    src[i] = Quote /\ result.ret.v.data.ui_name = SubSeq(src, 1, i - 1)
        ELSE result.ret = InvalidBrickLine

\* C16 witness: the line Linecount directly followed by a label, a double
\* quote and fields was classified as a base record with the whole start as
\* its label.
C16_Witness ==
    /\ result.op = "classify"
    /\ file = [kind |-> "class", start |-> 3, rest |-> 8]
    /\ result.ret.t = "Ok" /\ result.ret.v.tag = "Base"
    /\ result.ret.v.data.ui_name = Str(<<"L", "i", "n", "e", "c", "o", "u", "n", "t", "B">>)

\* The value a field of each type has when its word is empty, absent or not
\* a number.
TypeDefault(type) ==
    IF type = "f" THEN F32Zero
    ELSE IF type = "i" THEN 0
    ELSE IF type = "b" THEN FALSE
    ELSE <<>>

\* The residue of v modulo 256, in 0..255.
Mod256(v) == ((v % 256) + 256) % 256

\* The value stored for the word of row row of the table of a type.
StoredValue(type, row) ==
    IF type = "f" THEN row.v
    ELSE IF type = "t" THEN row.text
    ELSE IF type = "i" THEN (IF row.ok THEN Mod256(row.v) ELSE 0)
    ELSE row.ok /\ row.v # 0

\* The value of field p of the line that f describes: that of word p of the
\* line, the default when the line has fewer words.
ExpectedField(types, defaults, f, p) ==
    IF p > f.n THEN TypeDefault(types[p])
    ELSE IF f.sub[p] = 0 THEN defaults[p].v
    ELSE StoredValue(types[p], TableOf(types[p])[f.sub[p]])

\* The fields of a BrickBase after its label, in the order of the line.
FieldsOf(data) ==
    <<data.position[1], data.position[2], data.position[3], data.angle,
      data.is_baseplate, data.color_index, data.print, data.color_fx, data.shape_fx,
      data.raycasting, data.collision, data.rendering>>

\* C18: the fields of a base line after the double quote and its space, and
\* those of a palette line, are the words between single spaces, in order: a
\* word that is empty (two adjacent spaces), missing because the line ended,
\* or no number of the field's type gives the default (0.0, 0, false, empty
\* text) and no failure, and the fields after it are still those of the
\* words after it.
C18_FieldTokenization ==
    /\ (result.op = "classify" /\ file.kind = "fields") =>
           /\ result.ret.t = "Ok" /\ result.ret.v.tag = "Base"
           /\ result.ret.v.data.ui_name = Str(<<"B">>)
           /\ \A p \in 1..Len(BrickFieldTypes) :
                  FieldsOf(result.ret.v.data)[p]
                      = ExpectedField(BrickFieldTypes, BrickFieldDefaults, file, p)
    /\ (result.op = "color" /\ file.kind = "palette") =>
           \A p \in 1..Len(PaletteFieldTypes) :
               result.ret[p] = ExpectedField(PaletteFieldTypes, PaletteFieldDefaults, file, p)

\* C18 witness: a base line whose second field is empty was read as a record
\* with y = 0 and every later field that of its own word.
C18_Witness ==
    /\ result.op = "classify"
    /\ file.kind = "fields" /\ file.n = 12
    /\ file.sub = [p \in 1..12 |-> IF p = 2 THEN 1 ELSE 0]
    /\ result.ret.v.data.position = <<F32(15, 0 - 1), F32Zero, F32(3, 0)>>
    /\ result.ret.v.data.angle = 1
    /\ result.ret.v.data.print = Str(<<"P">>)
    /\ result.ret.v.data.rendering

\* The row of the integer table, or of the fixed line, that gives field p.
IntRowOf(f, p) ==
    IF f.sub[p] = 0
    THEN [text |-> BrickFieldDefaults[p].text, ok |-> TRUE,
          v |-> IF BrickFieldTypes[p] = "b"
                THEN (IF BrickFieldDefaults[p].v THEN 1 ELSE 0)
                ELSE BrickFieldDefaults[p].v]
    ELSE IntTable[f.sub[p]]

\* C19: orientation, palette index, colour effect and shape effect hold
\* v mod 256 when their text is an integer v of the signed 32-bit range (256
\* gives 0, 260 gives 4, -1 gives 255) and 0 when it is an integer outside
\* that range or no integer; is_baseplate and the three flags are true
\* exactly when their text is a non-zero integer of that range (256 is true).
C19_Truncation ==
    (result.op = "classify" /\ file.kind = "fields" /\ file.n = Len(BrickFieldTypes)) =>
        \A p \in 1..Len(BrickFieldTypes) :
            LET row == IntRowOf(file, p)
                stored == FieldsOf(result.ret.v.data)[p]
            IN  /\ BrickFieldTypes[p] = "i" =>
                       /\ stored \in 0..255
                       /\ row.ok => stored = Mod256(row.v)
                       /\ ~row.ok => stored = 0
                       /\ row.text = Str(<<"2", "5", "6">>) => stored = 0
                       /\ row.text = Str(<<"2", "6", "0">>) => stored = 4
                       /\ row.text = Str(<<"-", "1">>) => stored = 255
                /\ BrickFieldTypes[p] = "b" =>
                       /\ stored = (row.ok /\ row.v # 0)
                       /\ row.text = Str(<<"2", "5", "6">>) => stored = TRUE

\* C19 witness: a base line with 260 as its palette index was read as a
\* record with palette index 4.
C19_Witness ==
    /\ result.op = "classify"
    /\ file.kind = "fields" /\ file.n = 12
    /\ file.sub[6] = 7
    /\ result.ret.v.data.color_index = 4

\* What the classification of the line of kind k is to give.
ExpectedItem(k) ==
    IF k \in BaseKinds THEN Ok(Base(ExpectedBase(k)))
    ELSE IF k \in CountKinds THEN Ok(Linecount(ExpectedCount(k)))
    ELSE IF k \in ExtraKinds THEN Ok(Extra(PostText(k)))
    ELSE ExpectedFailure(k)

\* C17: when a pull returns the record of base line b whose run of
\* continuation lines ends at item e, the lines read from the source are
\* those up to e and, when there is one, the one line after e, which the
\* lookahead holds classified (the end of the input is held as such); a pull
\* that finds a line held gives what it would give on reading that line
\* afresh and reads on after it, so no line is read twice or dropped and
\* the lines are taken in input order; a pull ends within the input.
C17_OneLineLookahead ==
    [][result'.op = "next" =>
          /\ Cursor' >= Cursor /\ pos' >= pos /\ pos' <= Len(src)
          /\ (peeked # None /\ peeked[1] # None) =>
                 /\ pos = ItemEnd(Cursor + 1)
                 /\ peeked[1][1] = ExpectedItem(file.post[Cursor + 1])
                 /\ result'.ret
                        = ReaderNext(src, [pos |-> ItemEnd(Cursor), peeked |-> None],
                                     brick_count).ret
                 /\ Cursor' >= Cursor + 1
          /\ result'.ret.t = "Ok" =>
                 LET e == RunEnd(file.post, FirstRecordLine(file.post, Cursor))
                 IN  /\ Cursor' = e
                     /\ IF e < Len(file.post)
                        THEN /\ pos' = ItemEnd(e + 1)
                             /\ peeked' = Some(Some(ExpectedItem(file.post[e + 1])))
                        ELSE /\ pos' = Len(src)
                             /\ peeked' = Some(None)]_allvars

\* C17 witness: two base lines: the first pull has returned the record of
\* the first, the source is read to its end and the lookahead holds the
\* second line.
C17_Witness ==
    /\ file.post = <<"BaseA", "BaseB">>
    /\ Len(out) = 1 /\ out[1].t = "Ok"
    /\ pos = Len(src)
    /\ peeked = Some(Some(Ok(Base(ExpectedBase("BaseB")))))

\* C20: a pull leaves description and colors as Reader::new set them; it
\* changes brick_count only by taking a count line (the new value is that of
\* a count line among the lines the pull took), so a pull that returns a
\* failure or the end of the sequence without taking a count line leaves it
\* unchanged; brick_count once Some is never None again.
C20_MetadataFrame ==
    [][result'.op = "next" =>
          /\ description' = description
          /\ colors' = colors
          /\ brick_count' # brick_count =>
                 \E i \in (Cursor + 1)..Cursor' :
                     /\ file.post[i] \in CountKinds
                     /\ brick_count' = Some(ExpectedCount(file.post[i]))
          /\ (\A i \in (Cursor + 1)..Cursor' : file.post[i] \notin CountKinds) =>
                 brick_count' = brick_count
          /\ brick_count # None => brick_count' # None]_allvars

\* C20 witness: a file with a two-line description whose record stream is
\* one count line: a pull has returned the end of the sequence and the
\* description, the palette and the count are those Reader::new gave.
C20_Witness ==
    /\ file.hdr = 2 /\ file.desc = 2 /\ file.dtext = 1
    /\ file.post = <<"Count5">>
    /\ out = <<RetNone>>
    /\ brick_count = Some(5)
    /\ description = DescTexts[1] \o <<LF>> \o DescTexts[2]
    /\ Len(colors) = PaletteSize

====
